---- MODULE Spec2Model ----
(***************************************************************************)
(* POST /api/generate of the reaction GIF generator, in its two variants   *)
(* (single result: one keyword set, one search, one ranking; multi result: *)
(* three strategies searched and ranked concurrently), and the client      *)
(* form that calls it.  One request is one behaviour of Spec: the request  *)
(* and the environment are drawn in Init, the outcome of every external    *)
(* call (settlement, language model, GIF search) is drawn when the call    *)
(* returns.                                                                *)
(***************************************************************************)
EXTENDS Integers, Sequences, FiniteSets, TLC

(* ------------------------------ bounds -------------------------------- *)

\* The most candidates one search response carries in the model.
MaxGifs == 2

\* The most submit events of one client session in the model.
MaxSubmits == 3

\* The ranker's selectedIndex is any integer >= 0; the model draws it from
\* 0..MaxIndex, which reaches past every candidate list.
MaxIndex == MaxGifs + 1

(* --------------------------- JavaScript values ------------------------ *)

\* A JSON/JavaScript value as far as `!text || typeof text !== "string"`
\* looks at it: its typeof tag t and its printed value v.
JsUndefined == [t |-> "undefined", v |-> ""]
JsNull == [t |-> "null", v |-> ""]
JsString(s) == [t |-> "string", v |-> s]

\* The values of the body's text field: absent, null, the numbers 0 and 42,
\* true, an array, the empty string and a non-empty string.
TextValues ==
  { JsUndefined, JsNull,
    [t |-> "number", v |-> "0"], [t |-> "number", v |-> "42"],
    [t |-> "boolean", v |-> "true"], [t |-> "object", v |-> "[]"],
    JsString(""), JsString("when my code finally compiles") }

\* JavaScript truthiness of a value.
Truthy(x) ==
  CASE x.t = "undefined" -> FALSE
    [] x.t = "null" -> FALSE
    [] x.t = "number" -> x.v # "0"
    [] x.t = "boolean" -> x.v = "true"
    [] x.t = "string" -> x.v # ""
    [] OTHER -> TRUE

\* typeof x
TypeOf(x) == IF x.t = "null" THEN "object" ELSE x.t

\* The request body: one request.json() rejects (not JSON), one is the JSON
\* value null (destructuring { text } of it throws), the others are objects.
Bodies ==
  { [parse |-> "throws", text |-> JsUndefined],
    [parse |-> "null", text |-> JsUndefined] }
  \cup { [parse |-> "object", text |-> tv] : tv \in TextValues }

\* The x-payment header of the request.
PaymentHeaders == {"absent", "invalid", "valid"}

\* process.env.GIPHY_API_KEY: unset, or a key.
GiphyKeys == {JsUndefined, JsString("giphy-key")}

Variants == {"single", "multi"}

StrategyIx == 1..3

\* The strategies of the variant: one keyword set, or three strategies.
Ix(v) == IF v = "single" THEN {1} ELSE StrategyIx

(* ------------------------- the external services ---------------------- *)

\* What settlePayment can do with a payment header: reject (throw), or
\* return { status, responseBody, responseHeaders }.  Only a valid proof can
\* settle (status 200); the facilitator names the status of a refusal.
SettleThrown ==
  [kind |-> "thrown", status |-> 0, responseBody |-> "", responseHeaders |-> ""]
SettleReturned(st, b, h) ==
  [kind |-> "returned", status |-> st, responseBody |-> b, responseHeaders |-> h]
SettleOutcomes(pd) ==
  CASE pd = "absent" ->
         { SettleReturned(402, "payment required", "accepts-header") }
    [] pd = "invalid" ->
         { SettleReturned(402, "invalid payment", "accepts-header"),
           SettleReturned(400, "malformed payment", "no-header"),
           SettleThrown }
    [] OTHER ->
         { SettleReturned(200, "receipt", "receipt-header"),
           SettleReturned(402, "settlement failed", "accepts-header"),
           SettleReturned(500, "facilitator error", "no-header"),
           SettleThrown }

\* One strategy as the strategy model returns it.  The single-result schema
\* has no perspective; it is "none" there.
Strategy(kw, tp, p) == [keywords |-> kw, topic |-> tp, perspective |-> p]

\* What the keyword model of the single-result variant can return: an
\* object that passes keywordsSchema (1..3 keywords, topic a string or null).
KeywordObjects ==
  { << Strategy(<<"facepalm", "cringe">>, JsNull, "none") >>,
    << Strategy(<<"facepalm", "cringe">>, JsString("coding"), "none") >>,
    << Strategy(<<"relief", "celebration", "mind blown">>, JsString(""), "none") >> }

\* What the strategy model of the multi-result variant can return: an object
\* that passes strategiesSchema (exactly 3 strategies, 1..3 keywords each,
\* topic a string or null, perspective one of the enum; the schema does not
\* ask the three perspectives to differ).
StrategyObjects ==
  { << Strategy(<<"relief", "exhausted">>, JsNull, "emotional"),
       Strategy(<<"coding", "success">>, JsString("programmer"), "literal"),
       Strategy(<<"slow clap", "finally">>, JsNull, "sarcastic") >>,
    << Strategy(<<"oh really">>, JsString(""), "sarcastic"),
       Strategy(<<"joy">>, JsNull, "emotional"),
       Strategy(<<"waiting", "working late", "tired">>, JsString("coffee"), "literal") >>,
    << Strategy(<<"facepalm", "cringe">>, JsString("coding"), "emotional"),
       Strategy(<<"facepalm", "cringe">>, JsNull, "emotional"),
       Strategy(<<"sure jan">>, JsNull, "literal") >> }

\* The j-th candidate of the search of strategy i, as the search API
\* returns it (interface GiphyGif).
GiphyGif(i, j) ==
  [title |-> <<"title", i, j>>,
   images |-> [original |-> [url |-> <<"url", i, j>>]]]

\* How one search call can end: fetch rejects; a non-2xx response; a 2xx
\* response whose body is not JSON; a 2xx body without data; a 2xx body
\* with n candidates.
SearchOutcomes ==
  { [kind |-> k, n |-> 0] : k \in {"throws", "notok", "badjson", "nodata"} }
  \cup { [kind |-> "data", n |-> n] : n \in 0..MaxGifs }

\* How one ranking call can end: generateObject rejects, or a Selection
\* that passes selectionSchema (an integer >= 0, a reasoning).
SelectionOutcomes ==
  { [kind |-> "thrown", selectedIndex |-> 0, reasoning |-> ""] }
  \cup { [kind |-> "object", selectedIndex |-> k, reasoning |-> "because"] :
           k \in 0..MaxIndex }

(* ------------------------- the handlers' helpers ---------------------- *)

\* Array.prototype.join
RECURSIVE Join(_, _)
Join(words, sep) ==
  IF Len(words) = 0 THEN ""
  ELSE IF Len(words) = 1 THEN words[1]
  ELSE words[1] \o sep \o Join(Tail(words), sep)

\* Multi result: const searchQuery = strategy.topic
\*   ? `${strategy.keywords.join(" ")} ${strategy.topic}`
\*   : strategy.keywords.join(" ");
searchQuery(strategy) ==
  IF Truthy(strategy.topic)
  THEN Join(strategy.keywords, " ") \o " " \o strategy.topic.v
  ELSE Join(strategy.keywords, " ")

\* A query that puts the topic before the keywords.
SingleSearchQueryTopicFirst(object) ==
  IF Truthy(object.topic)
  THEN object.topic.v \o " " \o Join(object.keywords, " ")
  ELSE Join(object.keywords, " ")

\* const reactionKeywords = object.keywords.join(" ");
reactionKeywords(object) == Join(object.keywords, " ")

\* const searchQuery = object.topic
\*   ? `${reactionKeywords} ${object.topic}`
\*   : reactionKeywords;
SingleSearchQuery(object) ==
  IF Truthy(object.topic)
  THEN reactionKeywords(object) \o " " \o object.topic.v
  ELSE reactionKeywords(object)

\* A text check that forgets the typeof test.
TextRejectedWhenFalsy(text) == ~Truthy(text)

\* !text || typeof text !== "string"
TextRejected(text) == ~Truthy(text) \/ TypeOf(text) # "string"

\* A key check that compares with null instead of testing falsiness.
KeyMissingWhenNull(key) == key.t = "null"

\* !giphyApiKey
KeyMissing(key) == ~Truthy(key)

\* Response.json(body, { status, headers })
Response(st, b, h) == [status |-> st, body |-> b, headers |-> h]
ErrorBody(msg) == [type |-> "error", error |-> msg]
NoResponse == Response(0, [type |-> "none"], "")

\* A relay that answers 402 whatever status the facilitator named.
PaymentResponseAlways402(result) ==
  Response(402,
           [type |-> "facilitator", payload |-> result.responseBody],
           result.responseHeaders)

\* return Response.json(paymentResult.responseBody,
\*   { status: paymentResult.status, headers: paymentResult.responseHeaders })
PaymentResponse(result) ==
  Response(result.status,
           [type |-> "facilitator", payload |-> result.responseBody],
           result.responseHeaders)

BadRequest == Response(400, ErrorBody("Text input is required"), "json")
KeyNotConfigured == Response(500, ErrorBody("Giphy API key not configured"), "json")
\* A non-2xx search response reported like an empty one, as the multi-result
\* search function treats it.
GiphyFailedAsEmpty == Response(404, ErrorBody("No GIF found"), "json")

GiphyFailed == Response(500, ErrorBody("Failed to fetch from Giphy"), "json")
NoGifFound == Response(404, ErrorBody("No GIF found"), "json")
NoGifsFound == Response(404, ErrorBody("No GIFs found"), "json")

\* A catch that reports what was thrown: { error: error.message }.
CatchWithDetail == Response(500, ErrorBody("message of the thrown error"), "json")

\* catch (error) { ... return Response.json({ error: "Failed to generate GIF
\* recommendation" }, { status: 500 }) }
Catch == Response(500, ErrorBody("Failed to generate GIF recommendation"), "json")

\* The candidates of a search response with n records, for strategy i.
Candidates(i, n) == [j \in 1..n |-> GiphyGif(i, j)]

\* A fallback that clamps an index past the end to the last candidate.
selectedGifClamped(gifs, selection) ==
  IF selection.selectedIndex + 1 \in DOMAIN gifs
  THEN gifs[selection.selectedIndex + 1]
  ELSE gifs[Len(gifs)]

\* const selectedGif = gifs[selection.selectedIndex] || gifs[0];
selectedGif(gifs, selection) ==
  IF selection.selectedIndex + 1 \in DOMAIN gifs
  THEN gifs[selection.selectedIndex + 1]
  ELSE gifs[1]

\* The result object of the single-result variant.
SingleResult(object, gifs, selection) ==
  [url |-> selectedGif(gifs, selection).images.original.url,
   keywords |-> object.keywords,
   topic |-> object.topic,
   reasoning |-> selection.reasoning,
   title |-> selectedGif(gifs, selection).title]

\* A result that is tagged with a fixed perspective.
MultiResultFixedTag(strategy, gifs, selection) ==
  [url |-> selectedGif(gifs, selection).images.original.url,
   keywords |-> strategy.keywords,
   topic |-> strategy.topic,
   reasoning |-> selection.reasoning,
   title |-> selectedGif(gifs, selection).title,
   perspective |-> "emotional"]

\* The object one selection promise of the multi-result variant resolves to.
MultiResult(strategy, gifs, selection) ==
  [url |-> selectedGif(gifs, selection).images.original.url,
   keywords |-> strategy.keywords,
   topic |-> strategy.topic,
   reasoning |-> selection.reasoning,
   title |-> selectedGif(gifs, selection).title,
   perspective |-> strategy.perspective]

\* The null a selection promise resolves to when its search found nothing.
NullSelection == [null |-> TRUE]

\* selections.filter((s) => s !== null), over the selections in order.
RECURSIVE validGifs(_)
validGifs(selections) ==
  IF Len(selections) = 0 THEN <<>>
  ELSE IF Head(selections) # NullSelection
       THEN <<Head(selections)>> \o validGifs(Tail(selections))
       ELSE validGifs(Tail(selections))

\* A response assembly that answers an empty result with the single-result
\* variant's message.
MultiResponseSingleMessage(selections) ==
  IF Len(validGifs(selections)) = 0
  THEN NoGifFound
  ELSE Response(200, [type |-> "gifs", gifs |-> validGifs(selections)], "json")

\* A response assembly without the empty check.
MultiResponseNoEmptyCheck(selections) ==
  Response(200, [type |-> "gifs", gifs |-> validGifs(selections)], "json")

\* if (validGifs.length === 0) return 404; return Response.json({ gifs })
MultiResponse(selections) ==
  IF Len(validGifs(selections)) = 0
  THEN NoGifsFound
  ELSE Response(200, [type |-> "gifs", gifs |-> validGifs(selections)], "json")

\* return Response.json({ url, keywords, topic, reasoning, title })
SingleResponse(result) == Response(200, [type |-> "gif", gif |-> result], "json")

(* ------------------------------- state -------------------------------- *)

VARIABLES
  variant,          \* which route file serves the request, which form sends it
  paymentData,      \* the request's x-payment header
  body,             \* the request's body
  giphyApiKey,      \* process.env.GIPHY_API_KEY
  pc,               \* the handler's position
  paymentResult,    \* what settlePayment returned
  strategies,       \* object / strategiesResult.strategies
  search,           \* per strategy: the search promise and its candidates
  rank,             \* per strategy: the selection promise and its value
  response,         \* the Response the handler returned
  calls,            \* how often each external service was called
  input,            \* the form: the text field
  isPending,        \* the form: isPending of useFetchWithPayment, as rendered
  requests,         \* the form: the fetchWithPayment calls made so far
  results,          \* the form: result / results
  error,            \* the form: error
  strategy,         \* query construction alone: the strategy
  query             \* query construction alone: the query built from it

serverVars ==
  <<paymentData, body, giphyApiKey, pc, paymentResult, strategies, search,
    rank, response, calls>>
uiVars == <<input, isPending, requests, results, error>>
queryVars == <<strategy, query>>
vars == <<variant, serverVars, uiVars, queryVars>>

\* A promise nobody has created yet, and the promises of the two stages.
IdleSearch == [st |-> "idle", q |-> "", kind |-> "", gifs |-> <<>>]
NoSelection == [kind |-> "none", selectedIndex |-> 0, reasoning |-> ""]
IdleRank == [st |-> "idle", selection |-> NoSelection, value |-> NullSelection]

NoCalls ==
  [settle |-> 0, llm |-> 0,
   search |-> [i \in StrategyIx |-> 0], rank |-> [i \in StrategyIx |-> 0]]

NoPaymentResult ==
  [kind |-> "none", status |-> 0, responseBody |-> "", responseHeaders |-> ""]

\* The handler before its first statement.
ServerIdle ==
  /\ pc = "AwaitingPayment"
  /\ paymentResult = NoPaymentResult
  /\ strategies = <<>>
  /\ search = [i \in StrategyIx |-> IdleSearch]
  /\ rank = [i \in StrategyIx |-> IdleRank]
  /\ response = NoResponse
  /\ calls = NoCalls

\* The form as useState initialises it.
UiIdle ==
  /\ input = <<>>
  /\ isPending = FALSE
  /\ requests = <<>>
  /\ results = <<>>
  /\ error = JsNull

QueryIdle ==
  /\ strategy = Strategy(<<"facepalm">>, JsNull, "none")
  /\ query = JsUndefined

\* One request arrives at one of the two route handlers.
Init ==
  /\ variant \in Variants
  /\ paymentData \in PaymentHeaders
  /\ body \in Bodies
  /\ giphyApiKey \in GiphyKeys
  /\ ServerIdle
  /\ UiIdle
  /\ QueryIdle

(* ------------------------- the route handlers ------------------------- *)

\* return <response>: the handler is over.
Respond(r) == pc' = "Responded" /\ response' = r

\* The promise of a fetch that has been issued with query q.
SearchInflight(q) == [st |-> "inflight", q |-> q, kind |-> "", gifs |-> <<>>]

\* A search function that throws on a non-2xx response.
SearchSettledThrowOnNotOk(s, i, out) ==
  [st |-> IF out.kind \in {"throws", "badjson", "notok"}
          THEN "rejected" ELSE "fulfilled",
   q |-> s.q,
   kind |-> out.kind,
   gifs |-> IF out.kind = "data" THEN Candidates(i, out.n) ELSE <<>>]

\* The search promise of strategy i once its call has ended with out: it
\* rejects when fetch or response.json() throws; a non-2xx response and a
\* body without data leave no candidates (gifs: [], data.data || []).
SearchSettled(s, i, out) ==
  [st |-> IF out.kind \in {"throws", "badjson"} THEN "rejected" ELSE "fulfilled",
   q |-> s.q,
   kind |-> out.kind,
   gifs |-> IF out.kind = "data" THEN Candidates(i, out.n) ELSE <<>>]

\* A selection function that, without candidates, returns a promise that
\* never settles instead of null.
RankNullNeverSettles ==
  [st |-> "waiting", selection |-> NoSelection, value |-> NullSelection]

\* The selection promise of a strategy whose ranking call has been issued,
\* and the one of a strategy without candidates (return null, no call).
RankInflight == [st |-> "inflight", selection |-> NoSelection, value |-> NullSelection]
RankNull == [st |-> "fulfilled", selection |-> NoSelection, value |-> NullSelection]

\* A handler that checks the text before it settles the payment.
SettlePaymentAfterTextCheck ==
  /\ pc = "AwaitingPayment"
  /\ IF body.parse = "object" /\ TextRejected(body.text)
     THEN Respond(BadRequest) /\ UNCHANGED <<paymentResult, calls>>
     ELSE /\ \E out \in SettleOutcomes(paymentData) :
               /\ paymentResult' = out
               /\ IF out.kind = "thrown" THEN Respond(Catch)
                  ELSE IF out.status # 200 THEN Respond(PaymentResponse(out))
                  ELSE pc' = "ValidatingInput" /\ response' = response
          /\ calls' = [calls EXCEPT !.settle = @ + 1]
  /\ UNCHANGED <<variant, paymentData, body, giphyApiKey, strategies, search,
                 rank, uiVars, queryVars>>

\* Step 0 of both handlers: settle, and relay the facilitator's answer
\* unless it is a 200.
SettlePayment ==
  /\ pc = "AwaitingPayment"
  /\ \E out \in SettleOutcomes(paymentData) :
       /\ paymentResult' = out
       /\ IF out.kind = "thrown" THEN Respond(Catch)
          ELSE IF out.status # 200 THEN Respond(PaymentResponse(out))
          ELSE pc' = "ValidatingInput" /\ response' = response
  /\ calls' = [calls EXCEPT !.settle = @ + 1]
  /\ UNCHANGED <<variant, paymentData, body, giphyApiKey, strategies, search,
                 rank, uiVars, queryVars>>

SingleSettle == variant = "single" /\ SettlePayment

MultiSettle == variant = "multi" /\ SettlePayment

\* Single result: const { text } = await request.json(); the text check.
SingleValidate ==
  /\ variant = "single"
  /\ pc = "ValidatingInput"
  /\ IF body.parse # "object" THEN Respond(Catch)
     ELSE IF TextRejected(body.text) THEN Respond(BadRequest)
     ELSE pc' = "DerivingStrategies" /\ response' = response
  /\ UNCHANGED <<variant, paymentData, body, giphyApiKey, paymentResult,
                 strategies, search, rank, calls, uiVars, queryVars>>

\* Multi result: const { text } = await request.json(); the text check; the
\* key check.
MultiValidate ==
  /\ variant = "multi"
  /\ pc = "ValidatingInput"
  /\ IF body.parse # "object" THEN Respond(Catch)
     ELSE IF TextRejected(body.text) THEN Respond(BadRequest)
     ELSE IF KeyMissing(giphyApiKey) THEN Respond(KeyNotConfigured)
     ELSE pc' = "DerivingStrategies" /\ response' = response
  /\ UNCHANGED <<variant, paymentData, body, giphyApiKey, paymentResult,
                 strategies, search, rank, calls, uiVars, queryVars>>

\* Single result: the keyword model; the query; the key check; the fetch is
\* issued.
SingleDerive ==
  /\ variant = "single"
  /\ pc = "DerivingStrategies"
  /\ \/ /\ Respond(Catch)
        /\ calls' = [calls EXCEPT !.llm = @ + 1]
        /\ UNCHANGED <<strategies, search>>
     \/ \E object \in KeywordObjects :
          /\ strategies' = object
          /\ IF KeyMissing(giphyApiKey)
             THEN /\ Respond(KeyNotConfigured)
                  /\ calls' = [calls EXCEPT !.llm = @ + 1]
                  /\ search' = search
             ELSE /\ search' = [search EXCEPT
                                  ![1] = SearchInflight(SingleSearchQuery(object[1]))]
                  /\ calls' = [calls EXCEPT !.llm = @ + 1, !.search[1] = @ + 1]
                  /\ pc' = "Searching"
                  /\ response' = response
  /\ UNCHANGED <<variant, paymentData, body, giphyApiKey, paymentResult, rank,
                 uiVars, queryVars>>

\* A handler that fetches a second time when the first answer is not a 2xx.
SingleSearchReturnRetrying ==
  /\ variant = "single"
  /\ pc = "Searching"
  /\ search[1].st = "inflight"
  /\ \E out \in SearchOutcomes :
       IF out.kind = "notok" /\ calls.search[1] < 2
       THEN /\ search' = [search EXCEPT ![1] = SearchInflight(@.q)]
            /\ calls' = [calls EXCEPT !.search[1] = @ + 1]
            /\ UNCHANGED <<pc, response, rank>>
       ELSE /\ search' = [search EXCEPT ![1] = SearchSettled(@, 1, out)]
            /\ IF out.kind \in {"throws", "badjson"}
               THEN Respond(Catch) /\ UNCHANGED <<rank, calls>>
               ELSE IF out.kind = "notok"
               THEN Respond(GiphyFailed) /\ UNCHANGED <<rank, calls>>
               ELSE IF out.kind = "nodata" \/ out.n = 0
               THEN Respond(NoGifFound) /\ UNCHANGED <<rank, calls>>
               ELSE /\ rank' = [rank EXCEPT ![1] = RankInflight]
                    /\ calls' = [calls EXCEPT !.rank[1] = @ + 1]
                    /\ pc' = "Ranking"
                    /\ response' = response
  /\ UNCHANGED <<variant, paymentData, body, giphyApiKey, paymentResult,
                 strategies, uiVars, queryVars>>

\* Single result: the search response arrives; the ranking call is issued
\* when it carries candidates.
SingleSearchReturn ==
  /\ variant = "single"
  /\ pc = "Searching"
  /\ search[1].st = "inflight"
  /\ \E out \in SearchOutcomes :
       /\ search' = [search EXCEPT ![1] = SearchSettled(@, 1, out)]
       /\ IF out.kind \in {"throws", "badjson"}
          THEN Respond(Catch) /\ UNCHANGED <<rank, calls>>
          ELSE IF out.kind = "notok"
          THEN Respond(GiphyFailed) /\ UNCHANGED <<rank, calls>>
          ELSE IF out.kind = "nodata" \/ out.n = 0
          THEN Respond(NoGifFound) /\ UNCHANGED <<rank, calls>>
          ELSE /\ rank' = [rank EXCEPT ![1] = RankInflight]
               /\ calls' = [calls EXCEPT !.rank[1] = @ + 1]
               /\ pc' = "Ranking"
               /\ response' = response
  /\ UNCHANGED <<variant, paymentData, body, giphyApiKey, paymentResult,
                 strategies, uiVars, queryVars>>

\* Single result: the ranking model answers; the result is returned.
SingleRankReturn ==
  /\ variant = "single"
  /\ pc = "Ranking"
  /\ rank[1].st = "inflight"
  /\ \E selection \in SelectionOutcomes :
       IF selection.kind = "thrown"
       THEN /\ rank' = [rank EXCEPT ![1].st = "rejected"]
            /\ Respond(Catch)
       ELSE /\ rank' = [rank EXCEPT ![1] =
                          [st |-> "fulfilled", selection |-> selection,
                           value |-> SingleResult(strategies[1], search[1].gifs,
                                                  selection)]]
            /\ Respond(SingleResponse(rank'[1].value))
  /\ UNCHANGED <<variant, paymentData, body, giphyApiKey, paymentResult,
                 strategies, search, calls, uiVars, queryVars>>

\* Multi result: the strategy model answers; strategies.map(async ...) runs
\* each search function up to its fetch, so the three searches are in flight.
MultiDerive ==
  /\ variant = "multi"
  /\ pc = "DerivingStrategies"
  /\ \/ /\ Respond(Catch)
        /\ calls' = [calls EXCEPT !.llm = @ + 1]
        /\ UNCHANGED <<strategies, search>>
     \/ \E object \in StrategyObjects :
          /\ strategies' = object
          /\ search' = [i \in StrategyIx |-> SearchInflight(searchQuery(object[i]))]
          /\ calls' = [calls EXCEPT !.llm = @ + 1,
                                    !.search = [i \in StrategyIx |-> @[i] + 1]]
          /\ pc' = "Searching"
          /\ response' = response
  /\ UNCHANGED <<variant, paymentData, body, giphyApiKey, paymentResult, rank,
                 uiVars, queryVars>>

\* searchResults.map(async ({ strategy, gifs }) => ...) up to each function's
\* first await: null for a strategy without candidates, a ranking call in
\* flight for the others.
StartSelections(searchResults) ==
  [i \in StrategyIx |->
     IF Len(searchResults[i].gifs) = 0 THEN RankNull ELSE RankInflight]

\* The values of the selection promises, in the order of the strategies.
Selections(r) == [i \in StrategyIx |-> r[i].value]

\* A handler without the join: the selections start with the first search
\* that resolves, whatever the other searches do.
MultiSearchReturnNoJoin(i) ==
  /\ variant = "multi"
  /\ search[i].st = "inflight"
  /\ \E out \in SearchOutcomes :
       /\ search' = [search EXCEPT ![i] = SearchSettled(@, i, out)]
       /\ IF pc # "Searching"
          THEN UNCHANGED <<pc, response, rank, calls>>
          ELSE IF search'[i].st = "rejected"
          THEN Respond(Catch) /\ UNCHANGED <<rank, calls>>
          ELSE /\ rank' = StartSelections(search')
               /\ calls' = [calls EXCEPT !.rank =
                              [j \in StrategyIx |->
                                 IF rank'[j].st = "inflight" THEN @[j] + 1 ELSE @[j]]]
               /\ IF \A j \in StrategyIx : rank'[j].st = "fulfilled"
                  THEN Respond(MultiResponse(Selections(rank')))
                  ELSE pc' = "Ranking" /\ response' = response
  /\ UNCHANGED <<variant, paymentData, body, giphyApiKey, paymentResult,
                 strategies, uiVars, queryVars>>

\* Multi result: the search of strategy i ends.  await Promise.all(
\* searchPromises) rejects with the first search that rejects (the handler
\* is in its catch then, whatever the other searches do), and resolves
\* once all three have resolved; the selections start then, and when none
\* of them has a call to wait for the handler answers at once.
MultiSearchReturn(i) ==
  /\ variant = "multi"
  /\ search[i].st = "inflight"
  /\ \E out \in SearchOutcomes :
       /\ search' = [search EXCEPT ![i] = SearchSettled(@, i, out)]
       /\ IF pc # "Searching"
          THEN UNCHANGED <<pc, response, rank, calls>>
          ELSE IF search'[i].st = "rejected"
          THEN Respond(Catch) /\ UNCHANGED <<rank, calls>>
          ELSE IF \E j \in StrategyIx : search'[j].st # "fulfilled"
          THEN UNCHANGED <<pc, response, rank, calls>>
          ELSE /\ rank' = StartSelections(search')
               /\ calls' = [calls EXCEPT !.rank =
                              [j \in StrategyIx |->
                                 IF rank'[j].st = "inflight" THEN @[j] + 1 ELSE @[j]]]
               /\ IF \A j \in StrategyIx : rank'[j].st = "fulfilled"
                  THEN Respond(MultiResponse(Selections(rank')))
                  ELSE pc' = "Ranking" /\ response' = response
  /\ UNCHANGED <<variant, paymentData, body, giphyApiKey, paymentResult,
                 strategies, uiVars, queryVars>>

\* Multi result: the ranking call of strategy i ends.  await Promise.all(
\* selectionPromises) rejects with the first selection that rejects and
\* resolves once all have resolved; the response is assembled then.
MultiRankReturn(i) ==
  /\ variant = "multi"
  /\ rank[i].st = "inflight"
  /\ \E selection \in SelectionOutcomes :
       /\ rank' = [rank EXCEPT ![i] =
                     IF selection.kind = "thrown"
                     THEN [st |-> "rejected", selection |-> NoSelection,
                           value |-> NullSelection]
                     ELSE [st |-> "fulfilled", selection |-> selection,
                           value |-> MultiResult(strategies[i], search[i].gifs,
                                                 selection)]]
       /\ IF pc # "Ranking"
          THEN UNCHANGED <<pc, response>>
          ELSE IF rank'[i].st = "rejected"
          THEN Respond(Catch)
          ELSE IF \E j \in StrategyIx : rank'[j].st # "fulfilled"
          THEN UNCHANGED <<pc, response>>
          ELSE Respond(MultiResponse(Selections(rank')))
  /\ UNCHANGED <<variant, paymentData, body, giphyApiKey, paymentResult,
                 strategies, search, calls, uiVars, queryVars>>

Next ==
  \/ SingleSettle
  \/ SingleValidate
  \/ SingleDerive
  \/ SingleSearchReturn
  \/ SingleRankReturn
  \/ MultiSettle
  \/ MultiValidate
  \/ MultiDerive
  \/ \E i \in StrategyIx : MultiSearchReturn(i)
  \/ \E i \in StrategyIx : MultiRankReturn(i)

Spec == Init /\ [][Next]_vars

(* ------------------------------ the claims ---------------------------- *)

\* What the claims say about one request.
Responded == pc = "Responded"
Settled == paymentResult.kind = "returned" /\ paymentResult.status = 200
Refused == paymentResult.kind = "returned" /\ paymentResult.status # 200
NoModelOrSearchCall ==
  /\ calls.llm = 0
  /\ \A i \in StrategyIx : calls.search[i] = 0 /\ calls.rank[i] = 0
\* The body is a JSON object whose text is absent, null or not a string.
TextMissing == body.parse = "object" /\ body.text.t # "string"
\* The body is a JSON object whose text is a non-empty string.
WellFormed == body.parse = "object" /\ body.text.t = "string" /\ body.text.v # ""
KeyUnset == giphyApiKey = JsUndefined

\* C1: settlement comes first.  Whenever settlePayment returned a status
\* other than 200 the handler has answered with exactly the facilitator's
\* status, body and headers and has called neither a language model nor the
\* GIF search; a model or search call is made only after settlePayment
\* returned 200; and a 200 response is returned only in a request whose
\* settlePayment returned 200.
C1_SettlementFirst ==
  /\ Refused =>
       /\ Responded
       /\ response.status = paymentResult.status
       /\ response.body = [type |-> "facilitator",
                           payload |-> paymentResult.responseBody]
       /\ response.headers = paymentResult.responseHeaders
       /\ NoModelOrSearchCall
  /\ ~NoModelOrSearchCall => Settled /\ calls.settle = 1
  /\ response.status = 200 => Settled

\* C1's case: the facilitator refused with a status that is not 402, and
\* the handler relayed it.
C1_Witness ==
  /\ Refused
  /\ paymentResult.status = 500
  /\ Responded
  /\ response.status = 500
  /\ response.headers = "no-header"

\* C2 as stated: a request whose text is absent, null or not a string is
\* answered 400 "Text input is required" whatever the payment state.
C2_AsStated ==
  (Responded /\ TextMissing) => response = BadRequest

\* C2 as amended: for such a request the answer is 400 "Text input is
\* required" when settlePayment returned 200; when settlePayment returned
\* another status the answer is the facilitator's, and when it threw the
\* answer is the generic 500: the text is not looked at before settlement.
C2_BadRequestOnceSettled ==
  (Responded /\ TextMissing) =>
    /\ Settled => response = BadRequest
    /\ Refused =>
         /\ response.status = paymentResult.status
         /\ response.body.type = "facilitator"
    /\ paymentResult.kind = "thrown" => response = Catch

\* C2's case: payment settled, text is the number 42, the answer is 400.
C2_Witness ==
  /\ Settled
  /\ body.parse = "object"
  /\ body.text = [t |-> "number", v |-> "42"]
  /\ Responded
  /\ response.status = 400

\* C3 as stated: with the GIF search key unset every request ends with 500
\* and no search call is made.
C3_AsStated ==
  KeyUnset =>
    /\ \A i \in StrategyIx : calls.search[i] = 0
    /\ Responded => response.status = 500

\* C3 as amended: with the key unset no request makes a search call, and
\* every request whose payment settled with 200 and whose text is a
\* non-empty string ends with 500 (the multi-result variant before any model
\* call, the single-result variant after its keyword call); a request that
\* fails settlement or the text check ends as it does with the key set.
C3_KeyUnset ==
  KeyUnset =>
    /\ \A i \in StrategyIx : calls.search[i] = 0 /\ calls.rank[i] = 0
    /\ (Responded /\ Settled /\ WellFormed) =>
         /\ response.status = 500
         /\ variant = "multi" =>
              response = KeyNotConfigured /\ calls.llm = 0
         /\ variant = "single" =>
              /\ calls.llm = 1
              /\ response \in {KeyNotConfigured, Catch}

\* C3's case: the single-result handler has called the keyword model, finds
\* no key and answers 500 without searching.
C3_Witness ==
  /\ KeyUnset
  /\ variant = "single"
  /\ Responded
  /\ calls.llm = 1
  /\ response = KeyNotConfigured

\* C4: a well-formed request whose payment settled is answered 200, 404 or
\* 500 whatever the model and search calls do (every throw ends in the
\* handler's catch); a 200 of the single-result variant carries one result
\* object, a 200 of the multi-result variant a gifs array of 1 to 3 entries,
\* never more than there are strategies.
C4_SettledOutcomes ==
  (Responded /\ Settled /\ WellFormed) =>
    /\ response.status \in {200, 404, 500}
    /\ response.body.type \in {"error", "gif", "gifs"}
    /\ response.status = 200 =>
         IF variant = "single"
         THEN /\ response.body.type = "gif"
              /\ DOMAIN response.body.gif =
                   {"url", "keywords", "topic", "reasoning", "title"}
         ELSE /\ response.body.type = "gifs"
              /\ Len(response.body.gifs) \in 1..3
              /\ Len(response.body.gifs) <= Len(strategies)
    /\ response.status # 200 => response.body.type = "error"

\* C4's case: the multi-result handler answers 200 with one result while
\* the other two strategies found nothing.
C4_Witness ==
  /\ variant = "multi"
  /\ Responded
  /\ Settled
  /\ response.status = 200
  /\ Len(response.body.gifs) = 1

\* What the claims say about the multi-result flow.
Multi == variant = "multi" /\ strategies # <<>>
\* Every search call has ended.
SearchesOver == \A i \in StrategyIx : search[i].st \in {"fulfilled", "rejected"}
\* The search of strategy i ended without candidates: a non-2xx response, a
\* body without data, or empty data.
ZeroCandidates(i) ==
  \/ search[i].kind \in {"notok", "nodata"}
  \/ search[i].kind = "data" /\ Len(search[i].gifs) = 0
HasCandidates(i) == search[i].kind = "data" /\ Len(search[i].gifs) > 0
\* A search call threw (fetch, or reading the body), a ranking call threw.
SearchThrew(i) == search[i].kind \in {"throws", "badjson"}
RankThrew(i) == rank[i].st = "rejected"
\* The strategies with candidates, in the order of the strategies.
RECURSIVE Kept(_)
Kept(n) ==
  IF n = 0 THEN <<>>
  ELSE IF HasCandidates(n) THEN Append(Kept(n - 1), n) ELSE Kept(n - 1)
\* The strategy whose search produced the GIF of a result: candidate urls
\* are <<"url", strategy, position>>.
Origin(gif) == gif.url[2]

\* C5 as stated: when one strategy's search or ranking call fails (non-2xx,
\* thrown network error, thrown selection) while the searches of the other
\* two found candidates and their rankings did not fail, the response is
\* still 200.
C5_AsStated ==
  (Multi /\ Responded /\ SearchesOver
     /\ \E i \in StrategyIx :
          /\ search[i].kind \in {"notok", "throws"} \/ RankThrew(i)
          /\ \A j \in StrategyIx \ {i} : HasCandidates(j) /\ ~RankThrew(j))
  => response.status = 200

\* C5 as amended: a strategy whose search ends with a non-2xx response, a
\* body without data or empty data is dropped alone: when no call of the
\* request throws, the answer is 200 with exactly the results of the
\* strategies that had candidates, in their order (404 when none had).  A
\* search fetch or a ranking call that throws is not tolerated: it ends the
\* whole request with the generic 500, whatever the other strategies found.
C5_DroppedAlone ==
  Multi =>
    /\ (\E i \in StrategyIx : SearchThrew(i) \/ RankThrew(i)) =>
         Responded /\ response = Catch
    /\ (Responded /\ SearchesOver
          /\ \A i \in StrategyIx : ~SearchThrew(i) /\ ~RankThrew(i)) =>
         IF Kept(3) = <<>>
         THEN response.status = 404
         ELSE /\ response.status = 200
              /\ Len(response.body.gifs) = Len(Kept(3))
              /\ \A k \in 1..Len(Kept(3)) :
                   Origin(response.body.gifs[k]) = Kept(3)[k]

\* C5's case: the first strategy's search was answered non-2xx, the other
\* two strategies' results are returned with 200.
C5_Witness ==
  /\ Multi
  /\ Responded
  /\ search[1].kind = "notok"
  /\ response.status = 200
  /\ Len(response.body.gifs) = 2

\* C6: when exactly one of the three strategies has zero candidates and the
\* other two have at least one, a 200 response carries exactly two entries,
\* each with the perspective, keywords and topic of the strategy whose
\* search produced its GIF; and the response is a 200 unless a ranking call
\* threw.
C6_TwoTaggedResults ==
  (Multi /\ Responded /\ SearchesOver
     /\ \E i \in StrategyIx :
          /\ ZeroCandidates(i)
          /\ \A j \in StrategyIx \ {i} : HasCandidates(j))
  => /\ (\A j \in StrategyIx : ~RankThrew(j)) => response.status = 200
     /\ response.status = 200 =>
          /\ Len(response.body.gifs) = 2
          /\ \A k \in 1..2 :
               LET gif == response.body.gifs[k]
                   from == strategies[Origin(gif)]
               IN /\ HasCandidates(Origin(gif))
                  /\ gif.perspective = from.perspective
                  /\ gif.keywords = from.keywords
                  /\ gif.topic = from.topic
          /\ Origin(response.body.gifs[1]) # Origin(response.body.gifs[2])

\* C6's case: the second strategy found nothing, the response carries the
\* results of the first and the third, whose perspectives differ.
C6_Witness ==
  /\ Multi
  /\ Responded
  /\ ZeroCandidates(2)
  /\ response.status = 200
  /\ Len(response.body.gifs) = 2
  /\ response.body.gifs[1].perspective = "sarcastic"
  /\ response.body.gifs[2].perspective = "literal"

\* C7: when all three strategies have zero candidates (empty data, missing
\* data or a non-2xx response each) the response is 404 "No GIFs found" and
\* no ranking call is made; a 200 never carries an empty gifs array.
C7_AllEmpty ==
  Multi =>
    /\ (\A i \in StrategyIx : ZeroCandidates(i)) =>
         /\ Responded
         /\ response = NoGifsFound
         /\ \A i \in StrategyIx : calls.rank[i] = 0
    /\ (response.status = 200 /\ response.body.type = "gifs") =>
         Len(response.body.gifs) >= 1

\* C7's case: one search was answered non-2xx, one without data, one with
\* empty data, and the response is the 404.
C7_Witness ==
  /\ Multi
  /\ search[1].kind = "notok"
  /\ search[2].kind = "nodata"
  /\ search[3].kind = "data"
  /\ Len(search[3].gifs) = 0
  /\ response.status = 404

\* The candidate a Selection with index k must choose among n candidates of
\* strategy i: the one at k when k < n, the one at 0 otherwise.
Chosen(i, n, k) == GiphyGif(i, IF k < n THEN k + 1 ELSE 1)

\* C8: for every ranking that returned a Selection over a non-empty
\* candidate list, the result carries the candidate at selectedIndex when
\* the index is below the candidate count and the candidate at index 0
\* otherwise; an index out of range is not an error: the strategy has its
\* result, and the single-result handler answers 200 with it.
C8_FallbackToFirst ==
  \A i \in Ix(variant) :
    (rank[i].st = "fulfilled" /\ rank[i].selection.kind = "object") =>
      LET n == Len(search[i].gifs)
          k == rank[i].selection.selectedIndex
      IN /\ n > 0
         /\ rank[i].value # NullSelection
         /\ rank[i].value.url = Chosen(i, n, k).images.original.url
         /\ rank[i].value.title = Chosen(i, n, k).title
         /\ variant = "single" =>
              /\ Responded
              /\ response.status = 200
              /\ response.body.gif = rank[i].value
         /\ (variant = "multi" /\ response.status = 200) =>
              \E g \in 1..Len(response.body.gifs) :
                response.body.gifs[g] = rank[i].value

\* C8's case: two candidates, the ranker chose index 3, the response is a
\* 200 with the first candidate.
C8_Witness ==
  /\ variant = "single"
  /\ rank[1].st = "fulfilled"
  /\ Len(search[1].gifs) = 2
  /\ rank[1].selection.selectedIndex = 3
  /\ response.status = 200
  /\ response.body.gif.url = <<"url", 1, 1>>

(* ------------------------- query construction ------------------------- *)

\* keywordsSchema / strategiesSchema: at most 3 keywords.
MaxKeywords == 3

\* The keywords a model can return: z.string() admits any string, the empty
\* one and one with a space in it included.
Words == {"facepalm", "cringe", "mind blown", ""}
KeywordLists == UNION { [1..n -> Words] : n \in 1..MaxKeywords }

\* The topics a model can return: z.string().nullable().
Topics == {JsNull, JsString(""), JsString("coding")}

\* Query construction alone: any strategy the schemas admit.
InitQuery ==
  /\ variant \in Variants
  /\ paymentData = "absent"
  /\ body = [parse |-> "object", text |-> JsUndefined]
  /\ giphyApiKey = JsUndefined
  /\ ServerIdle
  /\ UiIdle
  /\ strategy \in { Strategy(kw, tp, "none") : kw \in KeywordLists, tp \in Topics }
  /\ query = JsUndefined

\* The handler of the variant builds the query of the strategy.
BuildQuery ==
  /\ query = JsUndefined
  /\ query' = JsString(IF variant = "single"
                       THEN SingleSearchQuery(strategy)
                       ELSE searchQuery(strategy))
  /\ UNCHANGED <<variant, serverVars, uiVars, strategy>>

NextQuery == BuildQuery

SpecQuery == InitQuery /\ [][NextQuery]_vars

\* The keywords joined by single spaces in their order, written out for
\* each length the schemas admit.
SpaceJoined(kw) ==
  CASE Len(kw) = 1 -> kw[1]
    [] Len(kw) = 2 -> kw[1] \o " " \o kw[2]
    [] Len(kw) = 3 -> kw[1] \o " " \o kw[2] \o " " \o kw[3]

\* C9 as stated: the query is the keywords joined by single spaces,
\* followed by a space and the topic when the topic is non-null, and with
\* nothing appended when the topic is null.
C9_AsStated ==
  query # JsUndefined =>
    query = JsString(IF strategy.topic # JsNull
                     THEN SpaceJoined(strategy.keywords) \o " " \o strategy.topic.v
                     ELSE SpaceJoined(strategy.keywords))

\* C9 as amended: the query is the keywords joined by single spaces in
\* their order, followed by a space and the topic when the topic is a
\* non-empty string, and with nothing appended when the topic is null or
\* the empty string ([facepalm, cringe] gives "facepalm cringe" with topic
\* null and "facepalm cringe coding" with topic coding).
C9_SearchQuery ==
  query # JsUndefined =>
    /\ query = JsString(IF strategy.topic \notin {JsNull, JsString("")}
                        THEN SpaceJoined(strategy.keywords) \o " "
                               \o strategy.topic.v
                        ELSE SpaceJoined(strategy.keywords))
    /\ (strategy.keywords = <<"facepalm", "cringe">> /\ strategy.topic = JsNull)
         => query.v = "facepalm cringe"
    /\ (strategy.keywords = <<"facepalm", "cringe">>
          /\ strategy.topic = JsString("coding"))
         => query.v = "facepalm cringe coding"

\* C9's case: the query of [facepalm, cringe] with topic coding has been
\* built by the single-result handler.
C9_Witness ==
  /\ variant = "single"
  /\ strategy.keywords = <<"facepalm", "cringe">>
  /\ strategy.topic = JsString("coding")
  /\ query = JsString("facepalm cringe coding")

(* ------------------------------ the form ------------------------------ *)

\* What the user can have typed: up to two characters, blank or not.
Chars == {" ", "a"}
Inputs == {<<>>} \cup { <<c>> : c \in Chars } \cup { <<c, d>> : c \in Chars, d \in Chars }

\* String.prototype.trim
RECURSIVE TrimStart(_)
TrimStart(text) ==
  IF Len(text) > 0 /\ Head(text) = " " THEN TrimStart(Tail(text)) ELSE text
RECURSIVE TrimEnd(_)
TrimEnd(text) ==
  IF Len(text) > 0 /\ text[Len(text)] = " "
  THEN TrimEnd(SubSeq(text, 1, Len(text) - 1))
  ELSE text
Trim(text) == TrimEnd(TrimStart(text))

\* What fetchWithPayment can resolve to: the parsed body of the variant's
\* response (one result, or the results of the strategies that had any).
Payloads(v) ==
  IF v = "single"
  THEN { <<"gif-1">>, <<"gif-2">> }
  ELSE { <<"gif-1">>, <<"gif-2", "gif-3">> }

\* What fetchWithPayment can reject with: an Error, or a value that is none.
Thrown ==
  { [isError |-> TRUE, message |-> "payment failed"],
    [isError |-> FALSE, message |-> "aborted"] }

\* A fetchWithPayment call that has not settled; data and thrown are what
\* it resolves to or rejects with.
NothingThrown == [isError |-> FALSE, message |-> ""]
Pending(text) ==
  [text |-> text, st |-> "pending", data |-> <<>>, thrown |-> NothingThrown]

\* isPending of the hook: its latest call has not settled.
HookPending(calls_) ==
  Len(calls_) > 0 /\ calls_[Len(calls_)].st = "pending"

\* One client session starts with the form as mounted.
InitUI ==
  /\ variant \in Variants
  /\ paymentData = "absent"
  /\ body = [parse |-> "object", text |-> JsUndefined]
  /\ giphyApiKey = JsUndefined
  /\ ServerIdle
  /\ UiIdle
  /\ QueryIdle

\* onChange={(e) => setInput(e.target.value)}; the field is disabled while
\* isPending.
setInput(value) ==
  /\ ~isPending
  /\ input # value
  /\ input' = value
  /\ UNCHANGED <<variant, serverVars, isPending, requests, results, error,
                 queryVars>>

\* A submit handler without the isPending guard.
handleSubmitUnguarded ==
  /\ Trim(input) # <<>>
  /\ Len(requests) < MaxSubmits
  /\ error' = JsNull
  /\ results' = <<>>
  /\ requests' = Append(requests, Pending(input))
  /\ isPending' = HookPending(requests')
  /\ UNCHANGED <<variant, serverVars, input, queryVars>>

\* A submit handler that leaves the previous result on display:
\* setError(null) without setResult(null) / setResults([]).
handleSubmitKeepingResults ==
  /\ ~(Trim(input) = <<>> \/ isPending)
  /\ Len(requests) < MaxSubmits
  /\ error' = JsNull
  /\ requests' = Append(requests, Pending(input))
  /\ isPending' = HookPending(requests')
  /\ UNCHANGED <<variant, serverVars, input, results, queryVars>>

\* handleSubmit up to its await: if (!input.trim() || isPending) return;
\* setError(null); setResult(null) / setResults([]); fetchWithPayment(...).
\* The component renders again with the hook's isPending before the next
\* event is handled.
handleSubmit ==
  /\ ~(Trim(input) = <<>> \/ isPending)
  /\ Len(requests) < MaxSubmits
  /\ error' = JsNull
  /\ results' = <<>>
  /\ requests' = Append(requests, Pending(input))
  /\ isPending' = HookPending(requests')
  /\ UNCHANGED <<variant, serverVars, input, queryVars>>

\* handleSubmit after its await, the call resolved:
\* invalidateBalances(...); setResult(data) / setResults(data.gifs).
Resolved(k) ==
  /\ requests[k].st = "pending"
  /\ \E data \in Payloads(variant) :
       /\ requests' = [requests EXCEPT ![k].st = "resolved", ![k].data = data]
       /\ results' = data
  /\ isPending' = HookPending(requests')
  /\ UNCHANGED <<variant, serverVars, input, error, queryVars>>

\* handleSubmit after its await, the call rejected:
\* setError(err instanceof Error ? err.message : "Something went wrong").
Rejected(k) ==
  /\ requests[k].st = "pending"
  /\ \E err \in Thrown :
       /\ requests' = [requests EXCEPT ![k].st = "rejected", ![k].thrown = err]
       /\ error' = JsString(IF err.isError THEN err.message
                            ELSE "Something went wrong")
  /\ isPending' = HookPending(requests')
  /\ UNCHANGED <<variant, serverVars, input, results, queryVars>>

NextUI ==
  \/ \E value \in Inputs : setInput(value)
  \/ handleSubmit
  \/ \E k \in 1..MaxSubmits : k <= Len(requests) /\ Resolved(k)
  \/ \E k \in 1..MaxSubmits : k <= Len(requests) /\ Rejected(k)

SpecUI == InitUI /\ [][NextUI]_vars

\* The fetchWithPayment calls that have not settled.
InFlight == { k \in 1..Len(requests) : requests[k].st = "pending" }

Single == variant = "single"

\* What the single-result search call ended with.
SearchNotOk == search[1].kind = "notok"
SearchEmpty ==
  \/ search[1].kind = "nodata"
  \/ search[1].kind = "data" /\ Len(search[1].gifs) = 0

\* C11: in the single-result variant (payment settled, text valid, key set),
\* a search answered with a non-2xx status yields the 500 "Failed to fetch
\* from Giphy", a 2xx answer whose candidate list is missing or empty yields
\* the 404 "No GIF found", and in both cases the ranking model is not called.
C11_SearchFailures ==
  Single =>
    /\ SearchNotOk =>
         /\ Settled /\ WellFormed /\ ~KeyUnset
         /\ Responded
         /\ response.status = 500
         /\ response.body = [type |-> "error", error |-> "Failed to fetch from Giphy"]
         /\ calls.rank[1] = 0 /\ rank[1].st = "idle"
    /\ SearchEmpty =>
         /\ Settled /\ WellFormed /\ ~KeyUnset
         /\ Responded
         /\ response.status = 404
         /\ response.body = [type |-> "error", error |-> "No GIF found"]
         /\ calls.rank[1] = 0 /\ rank[1].st = "idle"

\* Both failures are reached: C11_Witness for the non-2xx answer,
\* C11_EmptyReached and C11_MissingReached for the two empty ones.
C11_Witness == Single /\ SearchNotOk /\ Responded /\ response.status = 500
C11_EmptyReached ==
  Single /\ search[1].kind = "data" /\ Len(search[1].gifs) = 0 /\ response.status = 404
C11_MissingReached == Single /\ search[1].kind = "nodata" /\ response.status = 404

(* ------------------------ C12: the outermost catch --------------------- *)

\* Something threw inside the handler: settlePayment, request.json(), the
\* keyword / strategy model, a search (fetch or response.json()), a ranking
\* model.
SettleThrew == paymentResult.kind = "thrown"
BodyThrew == Settled /\ body.parse # "object" /\ pc # "ValidatingInput"
ModelThrew == calls.llm = 1 /\ strategies = <<>>
Threw ==
  \/ SettleThrew
  \/ BodyThrew
  \/ ModelThrew
  \/ \E i \in StrategyIx : SearchThrew(i) \/ RankThrew(i)

\* The three fixed bodies the handlers give a 500 of their own.
FixedMessages ==
  { "Giphy API key not configured",
    "Failed to fetch from Giphy",
    "Failed to generate GIF recommendation" }
GenericFailure ==
  /\ response.status = 500
  /\ response.body = [type |-> "error", error |-> "Failed to generate GIF recommendation"]
  /\ response.headers = "json"

C12_SettleThrewReached == SettleThrew /\ GenericFailure
C12_BodyThrewReached == BodyThrew /\ GenericFailure
C12_ModelThrewReached == ModelThrew /\ GenericFailure
C12_SearchThrewReached == (\E i \in StrategyIx : SearchThrew(i)) /\ GenericFailure
C12_RelayedReached == Responded /\ response.status = 500 /\ Refused

(* ---------------------- C13: fan-out and fan-in ------------------------ *)

MultiVariant == variant = "multi"
SearchInFlight == \E i \in StrategyIx : search[i].st = "inflight"
RankInFlight == \E i \in StrategyIx : rank[i].st = "inflight"
NoRankCall == \A i \in StrategyIx : calls.rank[i] = 0 /\ rank[i].st = "idle"
\* The three searches are issued by one statement: none or all of them.
IssuedTogether ==
  \/ \A i \in StrategyIx : calls.search[i] = 0 /\ search[i].st = "idle"
  \/ \A i \in StrategyIx : calls.search[i] = 1 /\ search[i].st # "idle"

\* C13 as stated: in the multi-result variant no ranking call is issued and
\* no response is returned while a search call is in flight, and no response
\* is returned while a ranking call is in flight.
C13_AsStated ==
  MultiVariant =>
    /\ IssuedTogether
    /\ SearchInFlight => NoRankCall /\ ~Responded
    /\ RankInFlight => ~Responded

\* C13: in the multi-result variant the three search calls are issued
\* together; no ranking call is issued while a search call is in flight; a
\* response returned while a search call is in flight is the generic 500 for
\* a search call that threw, and a response returned while a ranking call is
\* in flight is the generic 500 for a ranking call that threw.  The 200 and
\* the 404 are returned only when no call is in flight.
C13_JoinUnlessThrown ==
  MultiVariant =>
    /\ IssuedTogether
    /\ SearchInFlight => NoRankCall
    /\ SearchInFlight /\ Responded =>
         GenericFailure /\ \E j \in StrategyIx : SearchThrew(j)
    /\ RankInFlight /\ Responded =>
         GenericFailure /\ \E j \in StrategyIx : RankThrew(j)
    /\ Responded /\ response.status \in {200, 404} =>
         ~SearchInFlight /\ ~RankInFlight

\* The 500 went out while two sibling searches were still in flight; all
\* three searches in flight at once; a 200 after the two joins.
C13_Witness ==
  /\ MultiVariant /\ Responded /\ GenericFailure
  /\ \E i, j \in StrategyIx : i # j /\ search[i].st = "inflight" /\ search[j].st = "inflight"
C13_AllInFlight == MultiVariant /\ \A i \in StrategyIx : search[i].st = "inflight"
C13_RankSiblingReached == MultiVariant /\ Responded /\ RankInFlight
C13_JoinedReached ==
  /\ MultiVariant /\ response.status = 200
  /\ \A i \in StrategyIx : calls.rank[i] = 1

(* --------------------------- C14: no retries --------------------------- *)

\* The stages of the handler in the order of its statements.
Stage(p) ==
  CASE p = "AwaitingPayment" -> 0
    [] p = "ValidatingInput" -> 1
    [] p = "DerivingStrategies" -> 2
    [] p = "Searching" -> 3
    [] p = "Ranking" -> 4
    [] p = "Responded" -> 5

CalledAtMostOnce ==
  /\ calls.settle <= 1
  /\ calls.llm <= 1
  /\ \A i \in StrategyIx : calls.search[i] <= 1 /\ calls.rank[i] <= 1
  /\ variant = "single" =>
       \A i \in StrategyIx \ {1} : calls.search[i] = 0 /\ calls.rank[i] = 0

Ended(p) == p.st \in {"fulfilled", "rejected"}

\* A call that has ended is not issued again, and the handler does not go
\* back to an earlier stage.
NeverAgain ==
  /\ Stage(pc') >= Stage(pc)
  /\ paymentResult.kind # "none" => paymentResult' = paymentResult
  /\ strategies # <<>> => strategies' = strategies
  /\ \A i \in StrategyIx :
       /\ Ended(search[i]) => search'[i] = search[i]
       /\ Ended(rank[i]) => rank'[i] = rank[i]

\* C14: no operation is retried.  For one request settlePayment is called
\* at most once, the keyword / strategy model at most once, the search at
\* most once per strategy and the ranking model at most once per strategy; a
\* call that has ended (failed or not) is never issued again and the handler
\* never returns to an earlier stage.
C14_NoRetries == []CalledAtMostOnce /\ [][NeverAgain]_vars

\* Every kind of call has been made once and two of them failed: a search
\* answered non-2xx and a ranking call threw.
C14_Witness ==
  /\ variant = "multi" /\ Responded
  /\ calls.settle = 1 /\ calls.llm = 1
  /\ \A i \in StrategyIx : calls.search[i] = 1
  /\ \E i \in StrategyIx : search[i].kind = "notok"
  /\ \E i \in StrategyIx : calls.rank[i] = 1 /\ RankThrew(i)
C14_SingleFailedReached ==
  variant = "single" /\ Responded /\ search[1].kind = "notok" /\ calls.search[1] = 1

(* ------------------- C15: one strategy per perspective ----------------- *)

Perspectives == {"emotional", "literal", "sarcastic"}

\* Each perspective tags exactly one of the accepted strategies.
OnePerPerspective ==
  /\ Len(strategies) = 3
  /\ \A p \in Perspectives :
       Cardinality({i \in StrategyIx : strategies[i].perspective = p}) = 1

\* The 200 of the multi-result variant and its entries.
MultiOk == variant = "multi" /\ Responded /\ response.status = 200
SamePerspectiveTwice ==
  \E m, n \in 1..Len(response.body.gifs) :
    m # n /\ response.body.gifs[m].perspective = response.body.gifs[n].perspective

\* C15 as stated: every strategies result the multi-result variant accepts
\* has exactly three strategies, each perspective tagging exactly one of
\* them, so a 200 never holds two entries with the same perspective.
C15_AsStated ==
  /\ Multi => OnePerPerspective
  /\ MultiOk => ~SamePerspectiveTwice

\* What the schema does enforce: exactly three strategies, each tagged with
\* a perspective of the enumeration.
C15_ThreeTagged ==
  Multi =>
    /\ Len(strategies) = 3
    /\ \A i \in StrategyIx : strategies[i].perspective \in Perspectives

\* A 200 with two entries of one perspective.
C15_Witness == MultiOk /\ SamePerspectiveTwice

(* ---------------------- C16: results and error ------------------------- *)

Submitted == Len(requests) > 0
Latest == requests[Len(requests)]
Completed(k) == requests[k].st \in {"resolved", "rejected"}

C16_SucceededAfterFailure ==
  /\ Len(requests) >= 2
  /\ requests[Len(requests) - 1].st = "rejected"
  /\ Latest.st = "resolved"
  /\ error = JsNull /\ results # <<>>

(* ------------------------- C17: one response --------------------------- *)

\* Every external call eventually returns or throws, and the handler runs
\* on when it does.
CallsReturn ==
  /\ WF_vars(SingleSettle) /\ WF_vars(MultiSettle)
  /\ WF_vars(SingleValidate) /\ WF_vars(MultiValidate)
  /\ WF_vars(SingleDerive) /\ WF_vars(MultiDerive)
  /\ WF_vars(SingleSearchReturn) /\ WF_vars(SingleRankReturn)
  /\ \A i \in StrategyIx :
       WF_vars(MultiSearchReturn(i)) /\ WF_vars(MultiRankReturn(i))

SpecFair == Init /\ [][Next]_vars /\ CallsReturn

\* The response is one of the terminal ones: the facilitator's answer with
\* the facilitator's status, or a 400, 404, 500 or 200 of the handler.
Terminal ==
  IF Refused
  THEN /\ response.status = paymentResult.status
       /\ response.body = [type |-> "facilitator", payload |-> paymentResult.responseBody]
  ELSE /\ response.status \in {400, 404, 500, 200}
       /\ response.body.type \in {"error", "gif", "gifs"}

\* Once returned, the response is the response.
ReturnedOnce == Responded => pc' = pc /\ response' = response

\* C17: provided every external call eventually returns or throws, the
\* handler eventually returns, and it returns exactly one response, which is
\* the facilitator's answer (PaymentRequired), a 400, a 404, a 500 or a 200;
\* nothing is returned before, and the response never changes afterwards.
C17_OneResponse ==
  /\ <>Responded
  /\ [](Responded => Terminal)
  /\ [](~Responded => response = NoResponse)
  /\ [][ReturnedOnce]_vars

\* The handler has answered while calls of the request were still in flight,
\* and the calls have all ended since, none cancelled.
C17_Witness ==
  /\ Responded /\ Terminal
  /\ variant = "multi" /\ SearchesOver
  /\ \E i \in StrategyIx : SearchThrew(i)
  /\ \E i \in StrategyIx : ~SearchThrew(i)

(* ------------------- C18: failures of a paid request ------------------- *)

ErrorOf(msg) == response.body = [type |-> "error", error |-> msg]

\* The failures the claim lists: the 400 for the text, a 404, the 500 for
\* the missing key, and a 500 for a search or model call that failed.
FailureAfterPayment ==
  /\ Responded
  /\ \/ response.status = 400 /\ ErrorOf("Text input is required")
     \/ response.status = 404 /\ response.body.type = "error"
     \/ response.status = 500 /\ ErrorOf("Giphy API key not configured")
     \/ response.status = 500 /\ ErrorOf("Failed to fetch from Giphy")
     \/ /\ response.status = 500
        /\ ErrorOf("Failed to generate GIF recommendation")
        /\ \/ ModelThrew
           \/ \E i \in StrategyIx : SearchThrew(i) \/ RankThrew(i)

\* No step after the settlement touches it: no second settlement call, no
\* refund, the settlement result stays what it was.
SettlementStands ==
  Settled => paymentResult' = paymentResult /\ calls'.settle = calls.settle

\* C18: the payment is settled before anything else.  Every 400 for an
\* invalid text, every 404, every 500 for the missing key and every 500 for
\* a failed search or model call is returned only after settlePayment
\* returned 200, and no later step undoes or refunds the settlement.
C18_PaidBeforeFailure ==
  /\ [](FailureAfterPayment => Settled /\ calls.settle = 1)
  /\ [][SettlementStands]_vars

\* A settled request answered 404; the other failures are reached as well.
C18_Witness == Settled /\ FailureAfterPayment /\ response.status = 404
C18_BadRequestReached == Settled /\ FailureAfterPayment /\ response.status = 400
C18_KeyReached ==
  Settled /\ FailureAfterPayment /\ ErrorOf("Giphy API key not configured")
C18_SearchReached ==
  Settled /\ FailureAfterPayment /\ ErrorOf("Failed to fetch from Giphy")
C18_ThrownReached ==
  Settled /\ FailureAfterPayment /\ ErrorOf("Failed to generate GIF recommendation")

====
